---- MODULE Spec2Model ----
(***************************************************************************)
(* A model of gatsby-source-directus (src/gatsby-node.js): the Plugin      *)
(* singleton (setOptions, getOptions().fetch, iterateFiles, headers) and   *)
(* the file loop of exports.sourceNodes.                                   *)
(*                                                                         *)
(* The module holds one set of variables and several specifications, one  *)
(* per component; each leaves the other components' variables untouched.   *)
(*   SpecFetch    - the retrying fetch of the option bundle                *)
(*   SpecFiles    - the paginated file enumerator, pulled to its end       *)
(*   SpecSession  - setOptions called by the hooks, and headers()          *)
(*   SpecSync     - the file loop of sourceNodes over successive builds    *)
(***************************************************************************)
EXTENDS Integers, Sequences, FiniteSets, TLC

\* ------------------------------------------------------------------ bounds
\* largest configured retry budget explored (Joi.number() admits 0 too)
MaxRetries == 4
\* remote file identifiers are 1..MaxFiles
MaxFiles == 4
\* largest configured page size / concurrency explored
MaxConc == 3
\* how many times the remote file set may change while one enumeration runs
MaxChanges == 1
\* how many sync runs (builds) one behaviour holds
MaxRuns == 3

\* how many login exchanges the model lets the plugin start before it stops counting
MaxLogins == 2
\* how many times the SDK refreshes the session token within one behaviour
MaxRotations == 2
\* longest download filename explored, in characters (the spec's examples apart)
MaxNameLen == 4
\* longest path of a configured root URL explored, in characters
MaxPathLen == 4

\* constructor(): this.concurrency = 10; this.retries = 5;
DefaultConcurrency == 10
DefaultRetries == 5

\* JavaScript null (also: "no value")
Null == <<>>

VARIABLES
  \* ---- Plugin.getOptions().fetch (one call at a time)
  fpc,        \* position of the call: idle, test, request, sleep, exit, returned, thrown
  retries,    \* this.retries
  count,      \* let count
  response,   \* let response: Null or <<status>>
  error,      \* let error: Null or <<n>>, the error thrown by the n-th request
  outcome,    \* what the finished call returned or threw
  attempts,   \* history: number of request() calls of this call
  failures,   \* history: how many of them threw
  slept,      \* history: total seconds waited in sleep()
  waits,      \* history: number of sleep() calls
  \* ---- Plugin.iterateFiles
  ipc,        \* position of the generator: unstarted, loop, yielded, done
  concurrency,\* this.concurrency
  hasMore,    \* let hasMore
  page,       \* let page
  files,      \* const files: the batch last read
  remote,     \* the remote directus_files collection (set of ids)
  batches,    \* history: the batches yielded so far
  requests,   \* history: the page numbers requested so far
  changes,    \* history: how often the remote set changed since the generator started
  \* ---- the Plugin singleton's session (constructor, setOptions, headers)
  directus,   \* this.directus: FALSE is null, TRUE a Directus client
  options,    \* this.options: Null or <<the options object>>
  authPromise,\* this.authPromise: "null", "true" (auth.static) or "authResult" (auth.login)
  url,        \* this.url, this.urlGraphql, this.urlGraphqlSystem: "" or "derived"
  refreshInterval, \* this.refreshInterval
  sdkToken,   \* the token the Directus client holds (directus.auth.token), "" when none
  pluginOptions, \* the options object of each plugin instance configured in the host
  cpc,        \* per hook invocation: idle, static, login, returned, thrown
  carg,       \* per hook invocation: the options it passes to setOptions
  cret,       \* per hook invocation: the value setOptions returned
  cerr,       \* per hook invocation: the error raised
  cnet,       \* history: network requests issued by this invocation's setOptions
  cheld,      \* history: this.options was set when the invocation called setOptions
  cpre,       \* history: the session fields when the invocation called setOptions
  loginCount, \* history: login exchanges started (directus.auth.login)
  staticCount,\* history: static-token adoptions started (directus.auth.static)
  hpc,        \* the last headers() call: none, returned, thrown
  hdr,        \* the mapping the last headers() call returned
  \* ---- exports.sourceNodes: the file loop, and the host's cache and node store
  spc,        \* position of the run: idle, pull, batch, done, failed
  task,       \* per file of the batch, its callback: none, get, download, set, done, failed
  cache,      \* the host cache: the file ids that have an entry {nodeId}
  nodes,      \* the host node store: the file nodes that exist (getNode finds them)
  touches,    \* history: touchNode calls of this run, per node
  created,    \* history: the nodes createRemoteFileNode registered in this run
  downloads,  \* history: createRemoteFileNode calls of this run
  log,        \* history: one record per completed run
  Authorization, \* const { Authorization } of this run: Null (undefined) or <<value>>
  rotation,   \* history: how often the SDK has refreshed the session token
  looked,     \* history: per file, what its callback's cache lookup found and did
  sent,       \* history: per download, the header sent and the header headers() gave then
  wrote,      \* history: the files whose callback wrote a cache entry in this run
  late,       \* history: the files whose callback acted after the run had failed
  \* ---- one callback's lines 90-93 on one file record (strings are sequences of characters)
  npc,        \* position: record (a file record is at hand), built (lines 90-93 are done)
  filename_download, \* file.filename_download
  nameParts,  \* const nameParts
  ext,        \* const ext
  name,       \* const name
  \* ---- setOptions, lines 174-188, and line 93 (URL strings are sequences too)
  upc,        \* position: given, derived, thrown, asset
  rootUrl,    \* the url option
  urls,       \* this.url, this.urlGraphql, this.urlGraphqlSystem
  fileId,     \* file.id
  fileUrl     \* const fileUrl

fetchVars == <<fpc, retries, count, response, error, outcome, attempts, failures, slept, waits>>
iterVars == <<ipc, concurrency, hasMore, page, files, remote, batches, requests, changes>>
sessVars == <<directus, options, authPromise, url, refreshInterval, sdkToken, pluginOptions,
              cpc, carg, cret, cerr, cnet, cheld, cpre, loginCount, staticCount, hpc, hdr>>
syncVars == <<spc, task, cache, nodes, touches, created, downloads, log,
              Authorization, rotation, looked, sent, wrote, late>>
nameVars == <<npc, filename_download, nameParts, ext, name>>
urlVars == <<upc, rootUrl, urls, fileId, fileUrl>>
vars == <<fetchVars, iterVars, sessVars, syncVars, nameVars, urlVars>>

\* what each component's actions leave alone
fetchLocal == <<fpc, count, response, error, outcome, attempts, failures, slept, waits>>
iterLocal == <<ipc, hasMore, page, files, remote, batches, requests, changes>>
notFetch == <<iterVars, sessVars, syncVars, nameVars, urlVars>>
notIter == <<fetchVars, sessVars, syncVars, nameVars, urlVars>>
notSess == <<fetchLocal, iterLocal, syncVars, nameVars, urlVars>>
notSync == <<fetchVars, sessVars, nameVars, urlVars>>
notName == <<fetchVars, iterVars, sessVars, syncVars, urlVars>>
notUrl == <<fetchVars, iterVars, sessVars, syncVars, nameVars>>

Files == 1..MaxFiles
Statuses == {200, 404, 500}

\* ------------------------------------------------------------ pure helpers
RECURSIVE Pow2(_)
Pow2(n) == IF n = 0 THEN 1 ELSE 2 * Pow2(n - 1)

\* 2^1 + 2^2 + ... + 2^k
RECURSIVE SumPow2(_)
SumPow2(k) == IF k = 0 THEN 0 ELSE Pow2(k) + SumPow2(k - 1)

Ceil(m, n) == (m + n - 1) \div n

Min(a, b) == IF a < b THEN a ELSE b

\* the ids of a set in ascending order (sort: ['id'])
RECURSIVE SortedSeq(_)
SortedSeq(S) ==
  IF S = {} THEN <<>>
  ELSE LET m == CHOOSE x \in S : \A y \in S : x <= y
       IN <<m>> \o SortedSeq(S \ {m})

Range(s) == {s[i] : i \in 1..Len(s)}

RECURSIVE Flatten(_)
Flatten(ss) == IF ss = <<>> THEN <<>> ELSE Head(ss) \o Flatten(Tail(ss))

\* ------------------------------------------------- Plugin.getOptions().fetch
FetchInit ==
  /\ fpc = "idle"
  /\ count = 0
  /\ response = Null
  /\ error = Null
  /\ outcome = Null
  /\ attempts = 0
  /\ failures = 0
  /\ slept = 0
  /\ waits = 0

\* fetch: async (uri, options) => { let count = 0; let response = null; let error = null;
FetchCall ==
  /\ fpc \in {"idle", "returned", "thrown"}
  /\ fpc' = "test"
  /\ count' = 0
  /\ response' = Null
  /\ error' = Null
  /\ outcome' = Null
  /\ attempts' = 0
  /\ failures' = 0
  /\ slept' = 0
  /\ waits' = 0
  /\ UNCHANGED retries
  /\ UNCHANGED notFetch

LoopCondMutLe(c) == c <= retries
\* count++ < this.retries, on the value count has before the increment
LoopCond(c) == c < retries

\* while (response === null && count++ < this.retries): && short-circuits, so
\* count is incremented only when response is still null
FetchTest ==
  /\ fpc = "test"
  /\ IF response # Null
       THEN /\ fpc' = "exit"
            /\ UNCHANGED count
       ELSE /\ count' = count + 1
            /\ fpc' = IF LoopCond(count) THEN "request" ELSE "exit"
  /\ UNCHANGED <<retries, response, error, outcome, attempts, failures, slept, waits>>
  /\ UNCHANGED notFetch

\* try { response = await request(); }  -- the transport answers, with any status
FetchRequestOk ==
  /\ fpc = "request"
  /\ \E st \in Statuses : response' = <<st>>
  /\ attempts' = attempts + 1
  /\ fpc' = "sleep"
  /\ UNCHANGED <<retries, count, error, outcome, failures, slept, waits>>
  /\ UNCHANGED notFetch

\* catch (err) { error = err; }  -- the transport throws
FetchRequestFail ==
  /\ fpc = "request"
  /\ error' = <<attempts + 1>>
  /\ attempts' = attempts + 1
  /\ failures' = failures + 1
  /\ fpc' = "sleep"
  /\ UNCHANGED <<retries, count, response, outcome, slept, waits>>
  /\ UNCHANGED notFetch

BackoffMutFlat(c) == 1
\* Math.pow(2, count) * 1000 ms, in seconds
Backoff(c) == Pow2(c)

\* if (count > 0) { await sleep(Math.pow(2, count) * 1000); }
FetchSleep ==
  /\ fpc = "sleep"
  /\ IF count > 0
       THEN /\ slept' = slept + Backoff(count)
            /\ waits' = waits + 1
       ELSE UNCHANGED <<slept, waits>>
  /\ fpc' = "test"
  /\ UNCHANGED <<retries, count, response, error, outcome, attempts, failures>>
  /\ UNCHANGED notFetch

\* if (response === null) throw error; return response;
FetchExit ==
  /\ fpc = "exit"
  /\ IF response = Null
       THEN /\ fpc' = "thrown"
            /\ outcome' = error
       ELSE /\ fpc' = "returned"
            /\ outcome' = response
  /\ UNCHANGED <<retries, count, response, error, attempts, failures, slept, waits>>
  /\ UNCHANGED notFetch

FetchNext ==
  \/ FetchCall
  \/ FetchTest
  \/ FetchRequestOk
  \/ FetchRequestFail
  \/ FetchSleep
  \/ FetchExit

\* ------------------------------------------- Plugin: constructor, setOptions
Hooks == {"createSchemaCustomization", "createResolvers", "sourceNodes"}

\* the auth blocks explored: every mix of a token, an email and a password the
\* instance may give ("" is an absent or empty field)
AuthBlocks(tok) ==
  { [token |-> "", email |-> "", password |-> ""],
    [token |-> tok, email |-> "", password |-> ""],
    [token |-> "", email |-> "a@b.c", password |-> "pw"],
    [token |-> "", email |-> "a@b.c", password |-> ""],
    [token |-> tok, email |-> "a@b.c", password |-> "pw"] }

NoRefresh == [kind |-> "absent", num |-> 0, str |-> ""]
Refreshes ==
  { NoRefresh,
    [kind |-> "number", num |-> 30, str |-> ""],
    [kind |-> "string", num |-> 0, str |-> "5s"],
    [kind |-> "string", num |-> 0, str |-> "abc"] }

UserHeaders == {<<"Authorization", <<"Basic", "user">>>>, <<"X-Custom", <<"x", "1">>>>}

\* the options objects of the first plugin instance: auth is Null (no auth
\* block) or <<block>>, headers the user-supplied static map ({} when absent)
Options1 ==
  [url : {"", "not a url", "https://cms/"},
   auth : {Null} \cup {<<a>> : a \in AuthBlocks("tokA")},
   dev : Refreshes,
   headers : {{}, UserHeaders},
   concurrency : {2},
   retries : {2}]

\* the options objects of a second instance of the plugin in the same host
Options2 ==
  [url : {"https://other/"},
   auth : {<<a>> : a \in {b \in AuthBlocks("tokB") : b.token = "" <=> b.password # ""}},
   dev : {NoRefresh},
   headers : {{}},
   concurrency : {3},
   retries : {3}]

\* function isEmpty(value): a non-string (absent) value is empty too
isEmpty(value) == value = ""

\* new URL(url) throws on a string that is no absolute URL
IsURL(u) == u \in {"https://cms/", "https://other/"}

hasAuth(o) == o.auth # Null
hasToken(o) == hasAuth(o) /\ ~isEmpty(o.auth[1].token)
hasEmail(o) == hasAuth(o) /\ ~isEmpty(o.auth[1].email)
hasPassword(o) == hasAuth(o) /\ ~isEmpty(o.auth[1].password)
hasCredentials(o) == hasEmail(o) /\ hasPassword(o)

\* pluginOptionsSchema: .with('email','password').with('password','email').xor('token','email')
SchemaValid(o) ==
  /\ ~isEmpty(o.url)
  /\ hasAuth(o) => /\ hasEmail(o) <=> hasPassword(o)
                   /\ hasToken(o) # hasEmail(o)

\* ms(str) / 1000 of the ms package: NaN when the string is no duration
MsSeconds(str) == IF str = "5s" THEN [nan |-> FALSE, val |-> 5] ELSE [nan |-> TRUE, val |-> 0]

\* typeof dev?.refresh === 'string' ? ms(dev.refresh) / 1000 : dev?.refresh || 15
RefreshOf(dev) ==
  IF dev.kind = "string" THEN MsSeconds(dev.str)
  ELSE IF dev.kind = "number" /\ dev.num # 0 THEN [nan |-> FALSE, val |-> dev.num]
  ELSE [nan |-> FALSE, val |-> 15]

\* the fields of the singleton that make up the held session
SessionFields ==
  <<directus, options, authPromise, url, refreshInterval, sdkToken, concurrency, retries>>

\* class Plugin constructor(), and the host's configured plugin instances
SessInit ==
  /\ directus = FALSE
  /\ options = Null
  /\ authPromise = "null"
  /\ url = ""
  /\ refreshInterval = [nan |-> FALSE, val |-> 0]
  /\ sdkToken = ""
  /\ cpc = [h \in Hooks |-> "idle"]
  /\ carg = [h \in Hooks |-> pluginOptions[1]]
  /\ cret = [h \in Hooks |-> "null"]
  /\ cerr = [h \in Hooks |-> ""]
  /\ cnet = [h \in Hooks |-> 0]
  /\ cheld = [h \in Hooks |-> FALSE]
  /\ cpre = [h \in Hooks |-> <<FALSE, Null, "null", "", [nan |-> FALSE, val |-> 0], "",
                               DefaultConcurrency, DefaultRetries>>]
  /\ loginCount = 0
  /\ staticCount = 0
  /\ hpc = "none"
  /\ hdr = {}

\* a hook invocation h is not inside setOptions
Free(h) == cpc[h] \in {"idle", "returned", "thrown"}

\* bookkeeping of a hook invocation h calling plugin.setOptions(o)
Enter(h, o) ==
  /\ Free(h)
  /\ o \in {pluginOptions[1], pluginOptions[2]}
  /\ carg' = [carg EXCEPT ![h] = o]
  /\ cheld' = [cheld EXCEPT ![h] = options # Null]
  /\ cpre' = [cpre EXCEPT ![h] = SessionFields]

\* function error(message): throw new Error(...)
Raise(h, kind) ==
  /\ cpc' = [cpc EXCEPT ![h] = "thrown"]
  /\ cerr' = [cerr EXCEPT ![h] = kind]
  /\ cret' = [cret EXCEPT ![h] = "null"]

Return(h, value) ==
  /\ cpc' = [cpc EXCEPT ![h] = "returned"]
  /\ cerr' = [cerr EXCEPT ![h] = ""]
  /\ cret' = [cret EXCEPT ![h] = value]

\* sourceNodes, lines 53-54: plugin.getOptions() reads Object.entries(this.options)
\* before setOptions is called, which throws a TypeError while options is null
SourceNodesBeforeOptions ==
  /\ options = Null
  /\ \E o \in {pluginOptions[1], pluginOptions[2]} : Enter("sourceNodes", o)
  /\ Raise("sourceNodes", "TypeError")
  /\ cnet' = [cnet EXCEPT !["sourceNodes"] = 0]
  /\ UNCHANGED <<directus, options, authPromise, url, refreshInterval, sdkToken, pluginOptions,
                 loginCount, staticCount, hpc, hdr, concurrency, retries>>
  /\ UNCHANGED notSess

\* whether hook h reaches its call of plugin.setOptions
Reaches(h) == h = "sourceNodes" => options # Null

\* if (isEmpty(url)) error('"url" must be defined');
SetOptionsUrlMissing(h) ==
  /\ Reaches(h)
  /\ \E o \in {pluginOptions[1], pluginOptions[2]} :
       /\ Enter(h, o)
       /\ isEmpty(o.url)
  /\ Raise(h, "ConfigError")
  /\ cnet' = [cnet EXCEPT ![h] = 0]
  /\ UNCHANGED <<directus, options, authPromise, url, refreshInterval, sdkToken, pluginOptions,
                 loginCount, staticCount, hpc, hdr, concurrency, retries>>
  /\ UNCHANGED notSess

AlreadySetMutOptions == options # Null
AlreadySetMutNever == FALSE
\* if (this.directus) ...
AlreadySet == directus

\* if (this.directus) return this.authPromise;
SetOptionsEarlyReturn(h) ==
  /\ Reaches(h)
  /\ \E o \in {pluginOptions[1], pluginOptions[2]} :
       /\ Enter(h, o)
       /\ ~isEmpty(o.url)
  /\ AlreadySet
  /\ Return(h, authPromise)
  /\ cnet' = [cnet EXCEPT ![h] = 0]
  /\ UNCHANGED <<directus, options, authPromise, url, refreshInterval, sdkToken, pluginOptions,
                 loginCount, staticCount, hpc, hdr, concurrency, retries>>
  /\ UNCHANGED notSess

\* if (hasAuth) { if (!hasToken && !hasCredentials) error(...) } else warning(...)
AuthShapeOk(o) == hasAuth(o) => (hasToken(o) \/ hasCredentials(o))

SetOptionsAuthInvalid(h) ==
  /\ Reaches(h)
  /\ \E o \in {pluginOptions[1], pluginOptions[2]} :
       /\ Enter(h, o)
       /\ ~isEmpty(o.url)
       /\ ~AuthShapeOk(o)
  /\ ~AlreadySet
  /\ Raise(h, "ConfigError")
  /\ cnet' = [cnet EXCEPT ![h] = 0]
  /\ UNCHANGED <<directus, options, authPromise, url, refreshInterval, sdkToken, pluginOptions,
                 loginCount, staticCount, hpc, hdr, concurrency, retries>>
  /\ UNCHANGED notSess

\* try { const baseUrl = new URL(url); ... } catch (err) { error('"url" should be a valid URL') }
SetOptionsUrlInvalid(h) ==
  /\ Reaches(h)
  /\ \E o \in {pluginOptions[1], pluginOptions[2]} :
       /\ Enter(h, o)
       /\ ~isEmpty(o.url)
       /\ AuthShapeOk(o)
       /\ ~IsURL(o.url)
  /\ ~AlreadySet
  /\ Raise(h, "ConfigError")
  /\ cnet' = [cnet EXCEPT ![h] = 0]
  /\ UNCHANGED <<directus, options, authPromise, url, refreshInterval, sdkToken, pluginOptions,
                 loginCount, staticCount, hpc, hdr, concurrency, retries>>
  /\ UNCHANGED notSess

\* the call passes validation: lines 175-191 derive the urls and create the client
Proceeds(h, o) ==
  /\ Reaches(h)
  /\ Enter(h, o)
  /\ ~isEmpty(o.url)
  /\ ~AlreadySet
  /\ AuthShapeOk(o)
  /\ IsURL(o.url)
  /\ url' = "derived"
  /\ directus' = TRUE

\* lines 201-210: the refresh interval is computed and checked, then the options,
\* concurrency and retries are stored and authPromise (ap) is returned
Finish(h, o, ap) ==
  /\ refreshInterval' = RefreshOf(o.dev)
  /\ IF refreshInterval'.nan
       THEN /\ Raise(h, "ConfigError")
            /\ UNCHANGED <<options, concurrency, retries>>
       ELSE /\ options' = <<o>>
            /\ concurrency' = o.concurrency
            /\ retries' = o.retries
            /\ Return(h, ap)

Suspend(h, at) ==
  /\ cpc' = [cpc EXCEPT ![h] = at]
  /\ cerr' = [cerr EXCEPT ![h] = ""]
  /\ cret' = [cret EXCEPT ![h] = "null"]

\* if (hasToken) this.authPromise = await this.directus.auth.static(auth.token);
SetOptionsStartStatic(h) ==
  /\ \E o \in {pluginOptions[1], pluginOptions[2]} :
       /\ Proceeds(h, o)
       /\ hasToken(o)
  /\ Suspend(h, "static")
  /\ staticCount' = staticCount + 1
  /\ cnet' = [cnet EXCEPT ![h] = 1]
  /\ UNCHANGED <<options, authPromise, refreshInterval, sdkToken, pluginOptions,
                 loginCount, hpc, hdr, concurrency, retries>>
  /\ UNCHANGED notSess

\* if (hasCredentials) this.authPromise = await this.directus.auth.login({...});
SetOptionsStartLogin(h) ==
  /\ loginCount < MaxLogins
  /\ \E o \in {pluginOptions[1], pluginOptions[2]} :
       /\ Proceeds(h, o)
       /\ ~hasToken(o)
       /\ hasCredentials(o)
  /\ Suspend(h, "login")
  /\ loginCount' = loginCount + 1
  /\ cnet' = [cnet EXCEPT ![h] = 1]
  /\ UNCHANGED <<options, authPromise, refreshInterval, sdkToken, pluginOptions,
                 staticCount, hpc, hdr, concurrency, retries>>
  /\ UNCHANGED notSess

\* no auth block: neither exchange happens and the call runs to its end
SetOptionsNoAuth(h) ==
  /\ \E o \in {pluginOptions[1], pluginOptions[2]} :
       /\ Proceeds(h, o)
       /\ ~hasToken(o)
       /\ ~hasCredentials(o)
       /\ Finish(h, o, authPromise)
  /\ cnet' = [cnet EXCEPT ![h] = 0]
  /\ UNCHANGED <<authPromise, sdkToken, pluginOptions, loginCount, staticCount, hpc, hdr>>
  /\ UNCHANGED notSess

\* auth.static resolves (the client now holds the static token) and no
\* credentials follow: the call runs to its end
StaticResolved(h) ==
  /\ cpc[h] = "static"
  /\ ~hasCredentials(carg[h])
  /\ authPromise' = "true"
  /\ sdkToken' = carg[h].auth[1].token
  /\ Finish(h, carg[h], "true")
  /\ UNCHANGED <<directus, url, pluginOptions, carg, cnet, cheld, cpre, loginCount, staticCount,
                 hpc, hdr>>
  /\ UNCHANGED notSess

\* auth.static resolves and the auth block holds credentials too: login follows
StaticResolvedThenLogin(h) ==
  /\ cpc[h] = "static"
  /\ hasCredentials(carg[h])
  /\ loginCount < MaxLogins
  /\ authPromise' = "true"
  /\ sdkToken' = carg[h].auth[1].token
  /\ Suspend(h, "login")
  /\ loginCount' = loginCount + 1
  /\ cnet' = [cnet EXCEPT ![h] = cnet[h] + 1]
  /\ UNCHANGED <<directus, options, url, refreshInterval, pluginOptions, carg, cheld, cpre,
                 staticCount, hpc, hdr, concurrency, retries>>
  /\ UNCHANGED notSess

\* auth.login resolves: the client holds the session token; the call runs to its end
LoginResolved(h) ==
  /\ cpc[h] = "login"
  /\ authPromise' = "authResult"
  /\ sdkToken' = "session"
  /\ Finish(h, carg[h], "authResult")
  /\ UNCHANGED <<directus, url, pluginOptions, carg, cnet, cheld, cpre, loginCount, staticCount,
                 hpc, hdr>>
  /\ UNCHANGED notSess

\* catch (err) { error(`authentication failed with: ...`) }
AuthRejected(h) ==
  /\ cpc[h] \in {"static", "login"}
  /\ Raise(h, "AuthError")
  /\ UNCHANGED <<directus, options, authPromise, url, refreshInterval, sdkToken, pluginOptions,
                 carg, cnet, cheld, cpre, loginCount, staticCount, hpc, hdr, concurrency, retries>>
  /\ UNCHANGED notSess

\* Object.assign(target, source) on mappings held as sets of <<key, value>>
Assign(target, source) ==
  {e \in target : \A s \in source : s[1] # e[1]} \cup source

Bearer(token) == {<<"Authorization", <<"Bearer", token>>>>}

HeadersOfMutUserLast(o, token) ==
  Assign(IF token # "" THEN Bearer(token) ELSE {}, o.headers)
\* headers(): the user's headers first, then Authorization when a token is held
HeadersOf(o, token) ==
  Assign(Assign({}, o.headers), IF token # "" THEN Bearer(token) ELSE {})

\* async headers(), reached through the bundle getOptions() returns, which
\* exists only once this.options is set
HeadersCall ==
  /\ options # Null
  /\ IF ~directus
       THEN /\ hpc' = "thrown"
            /\ hdr' = {}
       ELSE /\ hpc' = "returned"
            /\ hdr' = HeadersOf(options[1], sdkToken)
  /\ UNCHANGED <<directus, options, authPromise, url, refreshInterval, sdkToken, pluginOptions,
                 cpc, carg, cret, cerr, cnet, cheld, cpre, loginCount, staticCount,
                 concurrency, retries>>
  /\ UNCHANGED notSess

SessNext ==
  \/ SourceNodesBeforeOptions
  \/ \E h \in Hooks : SetOptionsUrlMissing(h)
  \/ \E h \in Hooks : SetOptionsEarlyReturn(h)
  \/ \E h \in Hooks : SetOptionsAuthInvalid(h)
  \/ \E h \in Hooks : SetOptionsUrlInvalid(h)
  \/ \E h \in Hooks : SetOptionsStartStatic(h)
  \/ \E h \in Hooks : SetOptionsStartLogin(h)
  \/ \E h \in Hooks : SetOptionsNoAuth(h)
  \/ \E h \in Hooks : StaticResolved(h)
  \/ \E h \in Hooks : StaticResolvedThenLogin(h)
  \/ \E h \in Hooks : LoginResolved(h)
  \/ \E h \in Hooks : AuthRejected(h)
  \/ HeadersCall

\* ------------------------------------------------------ Plugin.iterateFiles
IterIdle ==
  /\ ipc = "unstarted"
  /\ hasMore = TRUE
  /\ page = 1
  /\ files = <<>>
  /\ batches = <<>>
  /\ requests = <<>>
  /\ changes = 0

\* directus.files.readByQuery({sort: ['id'], limit, page}).then((r) => r?.data ?? [])
ReadByQuery(store, limit, pg) ==
  LET all == SortedSeq(store)
      lo == (pg - 1) * limit + 1
      hi == Min(pg * limit, Len(all))
  IN IF lo > hi THEN <<>> ELSE SubSeq(all, lo, hi)

\* if (!this.directus) throw new Error('Directus is not instantiated');
IterNotReadyStep ==
  /\ ipc = "unstarted"
  /\ ~directus
  /\ ipc' = "thrown"
  /\ UNCHANGED <<concurrency, hasMore, page, files, remote, batches, requests, changes>>

\* let hasMore = true; let page = 1;  (the first next() of the generator)
IterStartStep ==
  /\ ipc = "unstarted"
  /\ directus
  /\ hasMore' = TRUE
  /\ page' = 1
  /\ ipc' = "loop"
  /\ UNCHANGED <<concurrency, files, remote, batches, requests, changes>>

\* while (hasMore) { const files = await readByQuery(...); yield files;
IterRequestStep ==
  /\ ipc = "loop"
  /\ hasMore
  /\ files' = ReadByQuery(remote, concurrency, page)
  /\ requests' = Append(requests, page)
  /\ batches' = Append(batches, files')
  /\ ipc' = "yielded"
  /\ UNCHANGED <<concurrency, hasMore, page, remote, changes>>

NextPageMutSkip(p) == p + 2
\* page++
NextPage(p) == p + 1

LastPageMutLe(fs) == Len(fs) <= concurrency
\* files.length < this.concurrency
LastPage(fs) == Len(fs) < concurrency

\* the consumer calls next(): if (files.length < this.concurrency) hasMore = false; else page++;
IterResumeStep ==
  /\ ipc = "yielded"
  /\ IF LastPage(files)
       THEN /\ hasMore' = FALSE
            /\ UNCHANGED page
       ELSE /\ page' = NextPage(page)
            /\ UNCHANGED hasMore
  /\ ipc' = "loop"
  /\ UNCHANGED <<concurrency, files, remote, batches, requests, changes>>

\* while (hasMore) fails: the generator returns
IterEndStep ==
  /\ ipc = "loop"
  /\ ~hasMore
  /\ ipc' = "done"
  /\ UNCHANGED <<concurrency, hasMore, page, files, remote, batches, requests, changes>>

\* the enumerator pulled to its end by a consumer that does nothing else
IterNotReady == IterNotReadyStep /\ UNCHANGED notIter
IterStart == IterStartStep /\ UNCHANGED notIter
IterRequest == IterRequestStep /\ UNCHANGED notIter
IterResume == IterResumeStep /\ UNCHANGED notIter
IterEnd == IterEndStep /\ UNCHANGED notIter

\* the remote collection gains or loses a file while the generator is running
RemoteChange ==
  /\ ipc \in {"loop", "yielded"}
  /\ changes < MaxChanges
  /\ \E f \in Files : remote' = IF f \in remote THEN remote \ {f} ELSE remote \cup {f}
  /\ changes' = changes + 1
  /\ UNCHANGED <<ipc, concurrency, hasMore, page, files, batches, requests>>
  /\ UNCHANGED notIter

FilesNext ==
  \/ IterNotReady
  \/ IterStart
  \/ IterRequest
  \/ IterResume
  \/ IterEnd
  \/ RemoteChange

\* ------------------------------------------- exports.sourceNodes: file loop
\* createRemoteFileNode gives the node of file f an id derived from the file
NodeId(f) == f

NoTouches == [n \in Files |-> 0]
NoTasks == [f \in Files |-> "none"]
NoLooks == [f \in Files |-> [entry |-> FALSE, node |-> FALSE, branch |-> "none"]]
NoSent == [f \in Files |-> <<>>]

SyncIdle ==
  /\ spc = "idle"
  /\ task = NoTasks
  /\ cache = {}
  /\ nodes = {}
  /\ touches = NoTouches
  /\ created = {}
  /\ downloads = 0
  /\ log = <<>>
  /\ Authorization = Null
  /\ rotation = 0
  /\ looked = NoLooks
  /\ sent = NoSent
  /\ wrote = {}
  /\ late = {}

\* between two builds the remote collection loses at most one file and gains at most one
Evolve(R) ==
  { (R \ D) \cup A : D \in {{}} \cup {{f} : f \in R},
                     A \in {{}} \cup {{f} : f \in Files \ R} }

\* the callbacks of the batch that have not settled
Unsettled == {f \in Files : task[f] \in {"get", "download", "set"}}
Downloading == {f \in Files : task[f] = "download"}

\* const { Authorization } = mapping: Null (undefined) when the key is absent
AuthorizationOf(mapping) ==
  IF \E e \in mapping : e[1] = "Authorization"
    THEN <<(CHOOSE e \in mapping : e[1] = "Authorization")[2]>>
    ELSE Null

\* the host invokes sourceNodes (lines 44-77) for a build; the nodes the previous
\* build neither touched nor created are gone from the host's store by then
HostRunsSourceNodes ==
  /\ spc \in {"idle", "done"}
  /\ Len(log) < MaxRuns
  /\ directus /\ options # Null
  /\ remote' \in IF spc = "idle" THEN {remote} ELSE Evolve(remote)
  /\ nodes' = IF spc = "idle" THEN nodes ELSE {n \in nodes : touches[n] > 0 \/ n \in created}
  /\ spc' = "pull"
  /\ ipc' = "unstarted"
  /\ hasMore' = TRUE
  /\ page' = 1
  /\ files' = <<>>
  /\ batches' = <<>>
  /\ requests' = <<>>
  /\ task' = NoTasks
  /\ touches' = NoTouches
  /\ created' = {}
  /\ downloads' = 0
  /\ Authorization' = AuthorizationOf(HeadersOf(options[1], sdkToken))
  /\ looked' = NoLooks
  /\ sent' = NoSent
  /\ wrote' = {}
  /\ late' = {}
  /\ UNCHANGED <<concurrency, changes, cache, log, rotation>>
  /\ UNCHANGED notSync

\* for await (const files of plugin.iterateFiles()): the generator's first next()
SyncIterStart ==
  /\ spc = "pull"
  /\ IterStartStep
  /\ UNCHANGED syncVars
  /\ UNCHANGED notSync

\* the generator requests a page and yields it
SyncIterRequest ==
  /\ spc = "pull"
  /\ IterRequestStep
  /\ UNCHANGED syncVars
  /\ UNCHANGED notSync

LogEntry == [remote |-> remote, downloads |-> downloads, touches |-> touches, cache |-> cache]

\* if (!files?.length) break;  -- leaving the loop closes the generator; sourceNodes returns
SyncBreak ==
  /\ spc = "pull"
  /\ ipc = "yielded"
  /\ Len(files) = 0
  /\ ipc' = "done"
  /\ spc' = "done"
  /\ log' = Append(log, LogEntry)
  /\ UNCHANGED <<concurrency, hasMore, page, files, remote, batches, requests, changes>>
  /\ UNCHANGED <<task, cache, nodes, touches, created, downloads>>
  /\ UNCHANGED <<Authorization, rotation, looked, sent, wrote, late>>
  /\ UNCHANGED notSync

\* await Promise.all(files.map(async (file) => { const cached = await cache.get(file.id);
\* every callback runs to its first await
SyncDispatch ==
  /\ spc = "pull"
  /\ ipc = "yielded"
  /\ Len(files) > 0
  /\ task' = [f \in Files |-> IF f \in Range(files) THEN "get" ELSE task[f]]
  /\ spc' = "batch"
  /\ UNCHANGED iterVars
  /\ UNCHANGED <<cache, nodes, touches, created, downloads, log>>
  /\ UNCHANGED <<Authorization, rotation, looked, sent, wrote, late>>
  /\ UNCHANGED notSync

HitMutNever(f) == FALSE
HitMutEntryOnly(f) == f \in cache
\* const node = cached && getNode(cached.nodeId); if (node) ...
Hit(f) == f \in cache /\ NodeId(f) \in nodes

\* what cache.get(file.id) and getNode(cached.nodeId) give, and the branch taken
Lookup(f, branch) == [entry |-> f \in cache, node |-> NodeId(f) \in nodes, branch |-> branch]

\* if (node) { touchNode(node); return; }
TaskHit(f) ==
  /\ task[f] = "get"
  /\ Hit(f)
  /\ touches' = [touches EXCEPT ![NodeId(f)] = @ + 1]
  /\ task' = [task EXCEPT ![f] = "done"]
  /\ looked' = [looked EXCEPT ![f] = Lookup(f, "touch")]
  /\ UNCHANGED iterVars
  /\ UNCHANGED <<spc, cache, nodes, created, downloads, log>>
  /\ UNCHANGED <<Authorization, rotation, sent, wrote, late>>
  /\ UNCHANGED notSync

\* const fileNode = await createRemoteFileNode({...})  -- the download starts
TaskMiss(f) ==
  /\ task[f] = "get"
  /\ ~Hit(f)
  /\ downloads' = downloads + 1
  /\ task' = [task EXCEPT ![f] = "download"]
  /\ looked' = [looked EXCEPT ![f] = Lookup(f, "download")]
  /\ sent' = [sent EXCEPT ![f] = <<Authorization,
                                    AuthorizationOf(HeadersOf(options[1], sdkToken))>>]
  /\ UNCHANGED iterVars
  /\ UNCHANGED <<spc, cache, nodes, touches, created, log>>
  /\ UNCHANGED <<Authorization, rotation, wrote, late>>
  /\ UNCHANGED notSync

\* createRemoteFileNode resolves: the file node exists; await cache.set(...) starts
TaskDownloadOk(f) ==
  /\ task[f] = "download"
  /\ nodes' = nodes \cup {NodeId(f)}
  /\ created' = created \cup {NodeId(f)}
  /\ task' = [task EXCEPT ![f] = "set"]
  /\ late' = IF spc = "failed" THEN late \cup {f} ELSE late
  /\ UNCHANGED iterVars
  /\ UNCHANGED <<spc, cache, touches, downloads, log>>
  /\ UNCHANGED <<Authorization, rotation, looked, sent, wrote>>
  /\ UNCHANGED notSync

RejectedMutSwallowed == "batch"
\* where a rejected callback leaves the run: Promise.all rejects on the first
\* rejection and nothing in sourceNodes catches it
Rejected == "failed"

\* createRemoteFileNode rejects: the callback rejects, so Promise.all rejects, the
\* loop is left (closing the generator) and sourceNodes rejects; the other
\* callbacks of the batch are not cancelled
TaskDownloadFail(f) ==
  /\ task[f] = "download"
  /\ task' = [task EXCEPT ![f] = "failed"]
  /\ spc' = Rejected
  /\ ipc' = "done"
  /\ UNCHANGED <<concurrency, hasMore, page, files, remote, batches, requests, changes>>
  /\ UNCHANGED <<cache, nodes, touches, created, downloads, log>>
  /\ UNCHANGED <<Authorization, rotation, looked, sent, wrote, late>>
  /\ UNCHANGED notSync

StoredMutDropped(c, f) == c
\* the cache after cache.set(file.id, { nodeId: fileNode.id })
Stored(c, f) == c \cup {f}

\* await cache.set(file.id, { nodeId: fileNode.id });
TaskCacheSet(f) ==
  /\ task[f] = "set"
  /\ cache' = Stored(cache, f)
  /\ task' = [task EXCEPT ![f] = "done"]
  /\ wrote' = wrote \cup {f}
  /\ late' = IF spc = "failed" THEN late \cup {f} ELSE late
  /\ UNCHANGED iterVars
  /\ UNCHANGED <<spc, nodes, touches, created, downloads, log>>
  /\ UNCHANGED <<Authorization, rotation, looked, sent>>
  /\ UNCHANGED notSync

BatchSettledMutNoAwait == TRUE
\* await Promise.all(...) resolves when every callback of the batch has resolved
BatchSettled == \A f \in Range(files) : task[f] = "done"

\* the loop body ends and for await calls next(): the generator resumes after its yield
SyncBatchDone ==
  /\ spc = "batch"
  /\ BatchSettled
  /\ IterResumeStep
  /\ spc' = "pull"
  /\ UNCHANGED <<task, cache, nodes, touches, created, downloads, log>>
  /\ UNCHANGED <<Authorization, rotation, looked, sent, wrote, late>>
  /\ UNCHANGED notSync

\* the generator returns: the loop ends and sourceNodes returns
SyncIterEnd ==
  /\ spc = "pull"
  /\ IterEndStep
  /\ spc' = "done"
  /\ log' = Append(log, LogEntry)
  /\ UNCHANGED <<task, cache, nodes, touches, created, downloads>>
  /\ UNCHANGED <<Authorization, rotation, looked, sent, wrote, late>>
  /\ UNCHANGED notSync

\* createResolvers, fileResolver.resolve(source): the cached node, or
\* throw new Error('Cached image not found for id: ' + source.id)
fileResolver(id) ==
  IF id \in cache
    THEN [raised |-> FALSE, node |-> IF NodeId(id) \in nodes THEN <<NodeId(id)>> ELSE Null]
    ELSE [raised |-> TRUE, node |-> Null]

\* the tokens the SDK's refresh gives the session, in order
RotatedTokens == <<"session-r1", "session-r2", "session-r3", "session-r4">>

\* the SDK refreshes the token of a login session (the access token expires);
\* directus.auth.token gives the new one from then on
TokenRotates ==
  /\ directus
  /\ authPromise = "authResult"
  /\ rotation < MaxRotations
  /\ rotation' = rotation + 1
  /\ sdkToken' = RotatedTokens[rotation + 1]
  /\ UNCHANGED <<directus, options, authPromise, url, refreshInterval, pluginOptions,
                 cpc, carg, cret, cerr, cnet, cheld, cpre, loginCount, staticCount, hpc, hdr>>
  /\ UNCHANGED <<spc, task, cache, nodes, touches, created, downloads, log,
                 Authorization, looked, sent, wrote, late>>
  /\ UNCHANGED fetchVars
  /\ UNCHANGED iterVars
  /\ UNCHANGED <<nameVars, urlVars>>

SyncNext ==
  \/ HostRunsSourceNodes
  \/ SyncIterStart
  \/ SyncIterRequest
  \/ SyncBreak
  \/ SyncDispatch
  \/ \E f \in Files : TaskHit(f)
  \/ \E f \in Files : TaskMiss(f)
  \/ \E f \in Files : TaskDownloadOk(f)
  \/ \E f \in Files : TaskDownloadFail(f)
  \/ \E f \in Files : TaskCacheSet(f)
  \/ SyncBatchDone
  \/ SyncIterEnd

SyncAuthNext ==
  \/ HostRunsSourceNodes
  \/ SyncIterStart
  \/ SyncIterRequest
  \/ SyncBreak
  \/ SyncDispatch
  \/ \E f \in Files : TaskHit(f)
  \/ \E f \in Files : TaskMiss(f)
  \/ \E f \in Files : TaskDownloadOk(f)
  \/ \E f \in Files : TaskDownloadFail(f)
  \/ \E f \in Files : TaskCacheSet(f)
  \/ SyncBatchDone
  \/ SyncIterEnd
  \/ TokenRotates

\* ------------------------------------- exports.sourceNodes: name and extension
\* a string is the sequence of its characters
NameChars == {"a", "b", "."}

RECURSIVE Strings(_, _)
\* the strings of at most n characters over an alphabet
Strings(alphabet, n) ==
  IF n = 0 THEN {<<>>}
  ELSE LET shorter == Strings(alphabet, n - 1)
       IN shorter \cup {Append(t, c) : t \in shorter, c \in alphabet}

\* the download filenames explored: every short string, and three usual names
Filenames ==
  Strings(NameChars, MaxNameLen) \cup
    { <<"p", "h", "o", "t", "o", ".", "j", "p", "g">>,
      <<"R", "E", "A", "D", "M", "E">>,
      <<"a", "r", "c", "h", "i", "v", "e", ".", "t", "a", "r", ".", "g", "z">> }

\* String.prototype.indexOf: the first position of c in t, 0 when there is none
IndexOf(t, c) ==
  IF \E i \in 1..Len(t) : t[i] = c
    THEN CHOOSE i \in 1..Len(t) : t[i] = c /\ \A j \in 1..(i - 1) : t[j] # c
    ELSE 0

RECURSIVE split(_, _)
\* String.prototype.split(separator) for a one-character separator
split(t, sep) ==
  IF IndexOf(t, sep) = 0 THEN <<t>>
  ELSE <<SubSeq(t, 1, IndexOf(t, sep) - 1)>> \o split(SubSeq(t, IndexOf(t, sep) + 1, Len(t)), sep)

RECURSIVE join(_, _)
\* Array.prototype.join(separator)
join(parts, sep) ==
  IF Len(parts) = 0 THEN <<>>
  ELSE IF Len(parts) = 1 THEN parts[1]
  ELSE parts[1] \o <<sep>> \o join(Tail(parts), sep)

\* `.${nameParts.pop()}` when nameParts.length > 1, '' otherwise
extOf(parts) == IF Len(parts) > 1 THEN <<".">> \o parts[Len(parts)] ELSE <<>>

poppedMutKept(parts) == parts
\* nameParts after line 91: pop() has removed the last part when it was evaluated
popped(parts) == IF Len(parts) > 1 THEN SubSeq(parts, 1, Len(parts) - 1) ELSE parts

NameInit ==
  /\ npc = "record"
  /\ filename_download = <<>>
  /\ nameParts = <<>>
  /\ ext = <<>>
  /\ name = <<>>

\* lines 90-92 on the file record at hand
NameAndExt ==
  /\ npc = "record"
  /\ nameParts' = popped(split(filename_download, "."))
  /\ ext' = extOf(split(filename_download, "."))
  /\ name' = join(nameParts', ".")
  /\ npc' = "built"
  /\ UNCHANGED filename_download
  /\ UNCHANGED notName

\* the callback of the next file record starts
NextRecord ==
  /\ npc = "built"
  /\ filename_download' \in Filenames
  /\ npc' = "record"
  /\ nameParts' = <<>>
  /\ ext' = <<>>
  /\ name' = <<>>
  /\ UNCHANGED notName

NamesNext ==
  \/ NameAndExt
  \/ NextRecord

\* ------------------------------------------ Plugin.setOptions: URL derivation
\* a URL string is the sequence of its origin (scheme and host, one element)
\* and the characters of what follows; the words graphql, system and assets
\* are one element each
Origins == {"https://cms", "http://localhost:8055"}
PathChars == {"/", "a"}

\* the paths explored: nothing, or a slash and more
Paths == {t \in Strings(PathChars, MaxPathLen) : t = <<>> \/ t[1] = "/"}

\* the url options explored: absolute URLs, and two strings that are none
RootUrls == {<<o>> \o t : o \in Origins, t \in Paths} \cup {<<"a">>, <<"/", "a">>}

\* new URL(u) parses u (it throws otherwise)
parses(u) == Len(u) > 0 /\ u[1] \in Origins

\* new URL(u).pathname: the path of an http(s) URL is never empty
pathname(u) == IF Len(u) = 1 THEN <<"/">> ELSE Tail(u)

basePathMutKeep(path) == path
\* pathname.endsWith('/') ? pathname.slice(0, -1) : pathname
basePath(path) ==
  IF Len(path) > 0 /\ path[Len(path)] = "/" THEN SubSeq(path, 1, Len(path) - 1) ELSE path

\* baseUrl.pathname = value; baseUrl.toString(): the setter gives an http(s)
\* URL the path "/" for an empty value and a leading slash when it has none
withPathname(u, value) ==
  <<u[1]>> \o (IF value = <<>> THEN <<"/">>
               ELSE IF value[1] = "/" THEN value
               ELSE <<"/">> \o value)

NoUrls == [url |-> <<>>, urlGraphql |-> <<>>, urlGraphqlSystem |-> <<>>]

\* lines 175-185
Derived(u) ==
  [url |-> withPathname(u, basePath(pathname(u))),
   urlGraphql |-> withPathname(u, basePath(pathname(u)) \o <<"/", "graphql">>),
   urlGraphqlSystem |->
     withPathname(u, basePath(pathname(u)) \o <<"/", "graphql", "/", "system">>)]

\* `${plugin.url}assets/${file.id}`
assetUrl(root, id) == root \o <<"assets", "/", id>>

\* file.id as it appears in a URL
FileIds == {ToString(f) : f \in Files}

UrlInit ==
  /\ upc = "given"
  /\ rootUrl = <<>>
  /\ urls = NoUrls
  /\ fileId = ""
  /\ fileUrl = <<>>

\* setOptions, lines 174-188, on a url option that is not empty
DeriveUrls ==
  /\ upc = "given"
  /\ IF parses(rootUrl)
       THEN /\ urls' = Derived(rootUrl)
            /\ upc' = "derived"
       ELSE /\ urls' = urls
            /\ upc' = "thrown"
  /\ UNCHANGED <<rootUrl, fileId, fileUrl>>
  /\ UNCHANGED notUrl

\* sourceNodes, line 93, for a file record
BuildFileUrl ==
  /\ upc \in {"derived", "asset"}
  /\ \E id \in FileIds :
       /\ fileId' = id
       /\ fileUrl' = assetUrl(urls.url, id)
  /\ upc' = "asset"
  /\ UNCHANGED <<rootUrl, urls>>
  /\ UNCHANGED notUrl

UrlsNext ==
  \/ DeriveUrls
  \/ BuildFileUrl

\* ------------------------------------------------------------ specifications
\* SpecFetch: one retrying fetch after another, for every configured budget
\* SpecFiles: the enumerator pulled to its end, the remote set possibly changing
\* SpecSession: the three hooks calling setOptions in any interleaving, and headers()
\* SpecSync: up to MaxRuns builds, each running the file loop of sourceNodes
\* SpecSyncAuth: the same builds on a login session whose token is refreshed
\* SpecNames: lines 90-92 applied to every filename explored
\* SpecUrls: the URL derivation of setOptions and the download URL of line 93
\* the components a specification does not exercise rest in the state the
\* program holds them in

\* no fetch call is in progress
FetchIdle == FetchInit

\* no enumeration is in progress
FilesIdle == IterIdle /\ remote = {}

\* the options of a static-token instance with page size n and retry budget r
TokenOptions(n, r) ==
  [url |-> "https://cms/",
   auth |-> <<[token |-> "tokA", email |-> "", password |-> ""]>>,
   dev |-> NoRefresh,
   headers |-> {},
   concurrency |-> n,
   retries |-> r]

\* the singleton as the constructor leaves it, the host holding instance options o
SessFresh(o) ==
  /\ pluginOptions = <<o, CHOOSE o2 \in Options2 : TRUE>>
  /\ SessInit
  /\ concurrency = DefaultConcurrency
  /\ retries = DefaultRetries

\* the singleton after createSchemaCustomization has run setOptions(o) to its end
SessEstablished(o) ==
  /\ directus = TRUE
  /\ options = <<o>>
  /\ authPromise = "true"
  /\ url = "derived"
  /\ refreshInterval = RefreshOf(o.dev)
  /\ sdkToken = o.auth[1].token
  /\ concurrency = o.concurrency
  /\ retries = o.retries
  /\ pluginOptions = <<o, CHOOSE o2 \in Options2 : TRUE>>
  /\ cpc = [h \in Hooks |-> IF h = "createSchemaCustomization" THEN "returned" ELSE "idle"]
  /\ carg = [h \in Hooks |-> o]
  /\ cret = [h \in Hooks |-> IF h = "createSchemaCustomization" THEN "true" ELSE "null"]
  /\ cerr = [h \in Hooks |-> ""]
  /\ cnet = [h \in Hooks |-> IF h = "createSchemaCustomization" THEN 1 ELSE 0]
  /\ cheld = [h \in Hooks |-> FALSE]
  /\ cpre = [h \in Hooks |-> <<FALSE, Null, "null", "", [nan |-> FALSE, val |-> 0], "",
                               DefaultConcurrency, DefaultRetries>>]
  /\ loginCount = 0
  /\ staticCount = 1
  /\ hpc = "none"
  /\ hdr = {}

\* the options of an instance that logs in, with page size n and retry budget r
LoginOptions(n, r) ==
  [url |-> "https://cms/",
   auth |-> <<[token |-> "", email |-> "me@cms", password |-> "pw"]>>,
   dev |-> NoRefresh,
   headers |-> {},
   concurrency |-> n,
   retries |-> r]

\* the singleton after createSchemaCustomization has run setOptions(o) to its end,
\* o holding credentials
SessLoggedIn(o) ==
  /\ directus = TRUE
  /\ options = <<o>>
  /\ authPromise = "authResult"
  /\ url = "derived"
  /\ refreshInterval = RefreshOf(o.dev)
  /\ sdkToken = "session"
  /\ concurrency = o.concurrency
  /\ retries = o.retries
  /\ pluginOptions = <<o, CHOOSE o2 \in Options2 : TRUE>>
  /\ cpc = [h \in Hooks |-> IF h = "createSchemaCustomization" THEN "returned" ELSE "idle"]
  /\ carg = [h \in Hooks |-> o]
  /\ cret = [h \in Hooks |-> IF h = "createSchemaCustomization" THEN "authResult" ELSE "null"]
  /\ cerr = [h \in Hooks |-> ""]
  /\ cnet = [h \in Hooks |-> IF h = "createSchemaCustomization" THEN 1 ELSE 0]
  /\ cheld = [h \in Hooks |-> FALSE]
  /\ cpre = [h \in Hooks |-> <<FALSE, Null, "null", "", [nan |-> FALSE, val |-> 0], "",
                               DefaultConcurrency, DefaultRetries>>]
  /\ loginCount = 1
  /\ staticCount = 0
  /\ hpc = "none"
  /\ hdr = {}

InitFetch ==
  /\ FetchInit
  /\ FilesIdle
  /\ \E r \in 0..MaxRetries : SessEstablished(TokenOptions(DefaultConcurrency, r))
  /\ SyncIdle
  /\ NameInit
  /\ UrlInit
SpecFetch == InitFetch /\ [][FetchNext]_vars

InitFiles ==
  /\ IterIdle
  /\ remote \in SUBSET Files
  /\ \/ \E n \in 1..MaxConc : SessEstablished(TokenOptions(n, DefaultRetries))
     \/ SessFresh(TokenOptions(DefaultConcurrency, DefaultRetries))
  /\ FetchIdle
  /\ SyncIdle
  /\ NameInit
  /\ UrlInit
SpecFiles == InitFiles /\ [][FilesNext]_vars

InitSession ==
  /\ pluginOptions \in Options1 \X Options2
  /\ SessInit
  /\ concurrency = DefaultConcurrency
  /\ retries = DefaultRetries
  /\ FetchIdle
  /\ FilesIdle
  /\ SyncIdle
  /\ NameInit
  /\ UrlInit
SpecSession == InitSession /\ [][SessNext]_vars

\* the first build finds the files 1..m in the remote collection; later builds
\* find what Evolve makes of it
InitSync ==
  /\ IterIdle
  /\ remote \in {1..m : m \in 0..MaxFiles}
  /\ \E n \in 1..MaxConc : SessEstablished(TokenOptions(n, DefaultRetries))
  /\ FetchIdle
  /\ SyncIdle
  /\ NameInit
  /\ UrlInit
SpecSync == InitSync /\ [][SyncNext]_vars

\* lines 90-92 applied to one file record after another, for every filename
InitNames ==
  /\ npc = "record"
  /\ filename_download \in Filenames
  /\ nameParts = <<>>
  /\ ext = <<>>
  /\ name = <<>>
  /\ UrlInit
  /\ FetchIdle
  /\ FilesIdle
  /\ SessEstablished(TokenOptions(DefaultConcurrency, DefaultRetries))
  /\ SyncIdle
SpecNames == InitNames /\ [][NamesNext]_vars

\* the URL derivation of setOptions for every url option, then line 93 for file ids
InitUrls ==
  /\ upc = "given"
  /\ rootUrl \in RootUrls
  /\ urls = NoUrls
  /\ fileId = ""
  /\ fileUrl = <<>>
  /\ NameInit
  /\ FetchIdle
  /\ FilesIdle
  /\ SessFresh(TokenOptions(DefaultConcurrency, DefaultRetries))
  /\ SyncIdle
SpecUrls == InitUrls /\ [][UrlsNext]_vars

\* the same builds on a login session, whose token the SDK refreshes
InitSyncAuth ==
  /\ IterIdle
  /\ remote \in {1..m : m \in 0..MaxFiles}
  /\ \E n \in 1..MaxConc : SessLoggedIn(LoginOptions(n, DefaultRetries))
  /\ FetchIdle
  /\ SyncIdle
  /\ NameInit
  /\ UrlInit
SpecSyncAuth == InitSyncAuth /\ [][SyncAuthNext]_vars


\* ------------------------------------------------------------------ claims
\* the remote collection's size and the page size of the enumeration
M == Cardinality(remote)
N == concurrency
NonEmptyBatches == Cardinality({i \in 1..Len(batches) : Len(batches[i]) > 0})
FullRun == ipc = "done" /\ changes = 0

\* C1 (as stated): a full run of the enumerator over M >= 1 records with page
\* size N yields exactly ceil(M/N) batches, also when M is a multiple of N.
C1_CeilBatches == (FullRun /\ M >= 1) => Len(batches) = Ceil(M, N)

\* C1 (amended): a full run yields floor(M/N) + 1 batches, of which ceil(M/N)
\* are non-empty; when M is a multiple of N the last batch yielded is empty.
C1_BatchCount ==
  (FullRun /\ M >= 1) =>
    /\ Len(batches) = (M \div N) + 1
    /\ NonEmptyBatches = Ceil(M, N)
    /\ (M % N = 0) => batches[Len(batches)] = <<>>

C1_Witness == FullRun /\ M = 2 * N

\* C2: every batch but the last has exactly N records, pages are requested in
\* order and the next one only after a batch of exactly N, a batch shorter than
\* N ends the enumeration, and with the remote set unchanged the batches hold
\* each of the M records exactly once, in order.
C2_Pagination ==
  /\ \A i \in 1..Len(batches) : Len(batches[i]) <= N
  /\ \A i \in 1..(Len(batches) - 1) : Len(batches[i]) = N
  /\ requests = [i \in 1..Len(batches) |-> i]
  /\ (ipc = "loop" /\ batches # <<>> /\ Len(batches[Len(batches)]) < N) => ~hasMore
  /\ FullRun => Flatten(batches) = SortedSeq(remote)

C2_Witness ==
  /\ FullRun
  /\ Len(batches) >= 2
  /\ Len(batches[Len(batches)]) \in 1..(N - 1)

\* a touch count of one for every node of S and none for the others
OnceEach(S) == [n \in Files |-> IF n \in S THEN 1 ELSE 0]
\* three completed runs: 3 files, the same 3 files, one file deleted and one added
Scenario ==
  /\ Len(log) = 3
  /\ Cardinality(log[1].remote) = 3
  /\ log[2].remote = log[1].remote
  /\ Cardinality(log[2].remote \ log[3].remote) = 1
  /\ Cardinality(log[3].remote \ log[2].remote) = 1

\* C3: a run over an unchanged remote set downloads nothing and touches every
\* node once; three runs over 3 files, the same 3 files, then one file deleted
\* and one added give 3 downloads and 3 cache entries, then 0 downloads and 3
\* touches, then 1 download and 2 touches, the deleted file's entry staying
\* in the cache untouched.
C3_Resync ==
  /\ \A i \in 2..Len(log) :
       log[i].remote = log[i - 1].remote =>
         /\ log[i].downloads = 0
         /\ log[i].touches = OnceEach(log[i].remote)
  /\ Scenario =>
       /\ log[1].downloads = 3 /\ log[1].touches = NoTouches /\ log[1].cache = log[1].remote
       /\ log[2].downloads = 0 /\ log[2].touches = OnceEach(log[1].remote)
       /\ log[2].cache = log[1].remote
       /\ log[3].downloads = 1
       /\ log[3].touches = OnceEach(log[3].remote \cap log[2].remote)
       /\ log[3].cache = log[2].remote \cup log[3].remote
       /\ \E f \in log[3].cache \ log[3].remote : log[3].touches[NodeId(f)] = 0

C3_Witness ==
  /\ Len(log) = 3
  /\ log[1].remote = {1, 2, 3} /\ log[2].remote = {1, 2, 3} /\ log[3].remote = {2, 3, 4}
  /\ log[3].downloads = 1

\* C4: when the transport fails k < retries times and then answers, fetch
\* returns that answer after exactly k + 1 attempts, having waited at least
\* 2^1 + ... + 2^k seconds.
C4_SuccessAfterK ==
  fpc = "returned" =>
    /\ failures < retries
    /\ attempts = failures + 1
    /\ response # Null /\ outcome = response
    /\ slept >= SumPow2(failures)

C4_Witness == fpc = "returned" /\ failures = 2 /\ retries > 2

\* C5: when the transport fails on every attempt, fetch makes exactly `retries`
\* attempts, never more, and raises the error of the last attempt: never a
\* value that is no captured transport error.
C5_Exhaustion ==
  /\ attempts <= retries
  /\ fpc = "thrown" => (attempts = retries /\ outcome # Null /\ outcome = <<attempts>>)

\* C6: with email+password at most one login exchange is ever started, exactly
\* one once setOptions has established the session, whatever the hooks'
\* interleaving and the headers() calls; setOptions called again with the held
\* configuration changes nothing and returns the held session.
C6_OneLogin ==
  /\ loginCount <= 1
  /\ (options # Null /\ hasCredentials(options[1])) => loginCount = 1
  /\ \A h \in Hooks :
       (Free(h) /\ cheld[h] /\ cpre[h][2] = <<carg[h]>>) =>
         /\ cpc[h] = "returned"
         /\ cret[h] = cpre[h][3]
         /\ SessionFields = cpre[h]

C6_Witness ==
  /\ hpc = "returned"
  /\ \E h \in Hooks :
       /\ cpc[h] = "returned" /\ cheld[h] /\ cpre[h][2] = <<carg[h]>>
       /\ hasCredentials(carg[h]) /\ cret[h] = "authResult"
  /\ \E h \in Hooks : cpc[h] = "returned" /\ ~cheld[h] /\ cret[h] = "null" /\ cnet[h] = 0

\* a finished setOptions call that found a session held and brought other options
Differs(h) == Free(h) /\ cheld[h] /\ cpre[h][2] # <<carg[h]>>

\* C7 (as stated): setOptions called with another configuration while a
\* session is held raises, leaving the session and the stored options unchanged.
C7_DifferentConfigRaises ==
  \A h \in Hooks : Differs(h) => (cpc[h] = "thrown" /\ SessionFields = cpre[h])

\* C7 (amended): setOptions called with another configuration while a session
\* is held raises only when that configuration has no url (the usual
\* ConfigError); otherwise it returns the held session without an error; in
\* both cases the session and the stored options are unchanged.
C7_DifferentConfigIgnored ==
  \A h \in Hooks :
    Differs(h) =>
      /\ SessionFields = cpre[h]
      /\ IF isEmpty(carg[h].url)
           THEN cpc[h] = "thrown" /\ cerr[h] = "ConfigError"
           ELSE cpc[h] = "returned" /\ cret[h] = cpre[h][3]

C7_Witness ==
  \E h \in Hooks : Differs(h) /\ cpc[h] = "returned" /\ carg[h].auth # options[1].auth

\* C8: a setOptions call that ends in a ConfigError has issued no network
\* request (static-token adoption or login exchange) before raising.
C8_ConfigErrorBeforeNetwork ==
  \A h \in Hooks : (cpc[h] = "thrown" /\ cerr[h] = "ConfigError") => cnet[h] = 0

\* C9: when the session was established from a schema-valid configuration with
\* a token, every headers() result holds Authorization: Bearer <token>, user
\* headers merged in or not, and no login exchange is ever started.
C9_StaticToken ==
  (options # Null /\ SchemaValid(options[1]) /\ hasToken(options[1])) =>
    /\ loginCount = 0
    /\ hpc # "thrown"
    /\ hpc = "returned" =>
         {e \in hdr : e[1] = "Authorization"} = Bearer(options[1].auth[1].token)

C9_Witness ==
  /\ options # Null /\ SchemaValid(options[1]) /\ hasToken(options[1])
  /\ options[1].headers = UserHeaders
  /\ hpc = "returned"
  /\ \E h \in Hooks : Differs(h) /\ hasCredentials(carg[h])

\* C10: a page is requested only when no callback of an earlier batch is
\* unsettled, so the unsettled callbacks all belong to the page last read and
\* at most `concurrency` downloads are in flight.
C10_Sequential ==
  /\ [](/\ Unsettled \subseteq Range(files)
        /\ Cardinality(Downloading) <= concurrency
        /\ spc = "pull" => Unsettled = {})
  /\ [][Len(requests') > Len(requests) => Unsettled = {}]_vars

C10_Witness ==
  /\ spc = "batch"
  /\ page >= 2
  /\ concurrency >= 2
  /\ Cardinality(Downloading) = concurrency

\* C11 as stated: once the run has failed, no sibling callback of the batch
\* registers a node or writes a cache entry.
C11_SiblingsAborted == late = {}

\* C11, amended: a rejected download fails the run and closes the enumerator,
\* so no further page is requested; the other callbacks of the batch are not
\* cancelled: those that act after the failure belong to the batch last read
\* and go on to register their node and write their cache entry.
C11_FailurePropagates ==
  /\ (\E f \in Files : task[f] = "failed") <=> spc = "failed"
  /\ spc = "failed" => ipc = "done"
  /\ late \subseteq Range(files)
  /\ \A f \in late : /\ spc = "failed"
                      /\ task[f] \in {"set", "done"}
                      /\ NodeId(f) \in nodes
                      /\ task[f] = "done" => f \in cache

C11_Witness ==
  /\ spc = "failed"
  /\ \E f \in late : task[f] = "done" /\ f \in wrote /\ NodeId(f) \in created

\* C15 as stated: a file whose id has a cache entry when it is processed is
\* only touched, whatever the node store holds: nothing is downloaded and no
\* cache entry is written for it.
C15_HitWhateverNodeStore ==
  \A f \in Files :
    looked[f].entry => looked[f].branch = "touch" /\ sent[f] = <<>> /\ f \notin wrote

\* C15, amended: a file is only touched exactly when its id has a cache entry
\* and the node that entry names still exists; then its node is touched once
\* and nothing is downloaded, registered or written for it. An entry whose
\* node is gone is treated as a miss: the file is downloaded again.
C15_HitWhenNodeExists ==
  /\ \A f \in Files :
       looked[f].branch # "none" =>
         /\ looked[f].branch = "touch" <=> (looked[f].entry /\ looked[f].node)
         /\ looked[f].branch = "touch" =>
              /\ task[f] = "done"
              /\ touches[NodeId(f)] = 1
              /\ NodeId(f) \notin created
              /\ f \notin wrote
              /\ sent[f] = <<>>
         /\ looked[f].branch = "download" => sent[f] # <<>> /\ touches[NodeId(f)] = 0
  /\ downloads = Cardinality({f \in Files : looked[f].branch = "download"})

C15_Witness ==
  \E f, g \in Files :
    /\ looked[f].branch = "touch"
    /\ looked[g].entry /\ ~looked[g].node
    /\ g \in wrote

\* C16 as stated: every asset download carries the Authorization header that
\* headers() gives at the time the download is started.
C16_CurrentCredentials ==
  \A f \in Files : sent[f] # <<>> => sent[f][1] = sent[f][2]

\* C19: once a run has completed without error, every file the enumerator
\* yielded in it has a cache entry naming an existing node, so the image
\* resolver does not raise for it and returns that node.
C19_ResolvableAfterRun ==
  spc = "done" =>
    \A f \in Range(Flatten(batches)) :
      /\ f \in cache
      /\ NodeId(f) \in nodes
      /\ ~fileResolver(f).raised
      /\ fileResolver(f).node = <<NodeId(f)>>

C19_Witness ==
  /\ spc = "done"
  /\ \E f, g \in Range(Flatten(batches)) :
       /\ looked[f].branch = "touch"
       /\ looked[g].branch = "download"
       /\ ~fileResolver(g).raised

\* C14 as stated: fetch waits only between two consecutive attempts, so a call
\* that has made a >= 1 attempts has waited exactly a - 1 times (a call whose
\* first attempt is answered has not waited at all).
C14_WaitsBetweenAttempts ==
  fpc \in {"returned", "thrown"} => waits = IF attempts = 0 THEN 0 ELSE attempts - 1

\* C17 as stated: while no setOptions call is suspended in its exchange, the
\* plugin never holds a Directus client without stored options (a failed call
\* leaves no half-initialised session behind).
C17_NoHalfSession ==
  (\A h \in Hooks : Free(h)) => (directus => options # Null)

\* C18 as stated: while one setOptions call is suspended in its token or login
\* exchange, no other call has returned normally: a call returns only once
\* the options are stored.
C18_NoReturnBeforeEstablished ==
  (\E g \in Hooks : ~Free(g)) => \A h \in Hooks : cpc[h] = "returned" => options # Null

\* the position of the last dot of a string, 0 when it has none
LastDot(t) ==
  IF \E i \in 1..Len(t) : t[i] = "."
    THEN CHOOSE i \in 1..Len(t) : t[i] = "." /\ \A j \in (i + 1)..Len(t) : t[j] # "."
    ELSE 0

\* C12: the extension is "." followed by what comes after the filename's last
\* dot when the filename contains a dot, and empty otherwise; the base name is
\* what comes before that dot (the whole filename when there is none); base
\* name followed by extension is the filename. photo.jpg gives (photo, .jpg),
\* README gives (README, nothing) and archive.tar.gz gives (archive.tar, .gz).
C12_NameAndExt ==
  npc = "built" =>
    LET t == filename_download
        d == LastDot(filename_download)
    IN /\ d > 0 => /\ ext = <<".">> \o SubSeq(t, d + 1, Len(t))
                   /\ name = SubSeq(t, 1, d - 1)
       /\ d = 0 => ext = <<>> /\ name = t
       /\ name \o ext = t
       /\ t = <<"p", "h", "o", "t", "o", ".", "j", "p", "g">> =>
            name = <<"p", "h", "o", "t", "o">> /\ ext = <<".", "j", "p", "g">>
       /\ t = <<"R", "E", "A", "D", "M", "E">> => name = t /\ ext = <<>>
       /\ t = <<"a", "r", "c", "h", "i", "v", "e", ".", "t", "a", "r", ".", "g", "z">> =>
            /\ name = <<"a", "r", "c", "h", "i", "v", "e", ".", "t", "a", "r">>
            /\ ext = <<".", "g", "z">>

C12_Witness ==
  /\ npc = "built"
  /\ filename_download = <<"a", ".", "b", ".">>
  /\ name = <<"a", ".", "b">>
  /\ ext = <<".">>

RECURSIVE Stripped(_)
\* a URL string without its trailing slashes
Stripped(u) ==
  IF Len(u) > 1 /\ u[Len(u)] = "/" THEN Stripped(SubSeq(u, 1, Len(u) - 1)) ELSE u

TrailingSlashes(u) == Len(u) - Len(Stripped(u))

\* C13 as stated: the derivation gives the same triple every time, and two
\* root URLs that differ only in their trailing slashes have the same primary
\* and the same system endpoint.
C13_TrailingSlashes ==
  upc = "derived" =>
    /\ urls = Derived(rootUrl)
    /\ \A v \in RootUrls :
         (parses(v) /\ Stripped(v) = Stripped(rootUrl)) =>
           /\ Derived(v).urlGraphql = urls.urlGraphql
           /\ Derived(v).urlGraphqlSystem = urls.urlGraphqlSystem

\* C13, amended: the derivation gives the same triple every time, and a root
\* URL with one trailing slash has the same primary and system endpoint as
\* the same URL without it: the URL without the slash followed by /graphql
\* and /graphql/system. (Only one trailing slash is removed.)
C13_OneTrailingSlash ==
  (upc = "derived" /\ TrailingSlashes(rootUrl) <= 1) =>
    /\ urls = Derived(rootUrl)
    /\ urls.urlGraphql = Stripped(rootUrl) \o <<"/", "graphql">>
    /\ urls.urlGraphqlSystem = Stripped(rootUrl) \o <<"/", "graphql", "/", "system">>
    /\ \A v \in RootUrls :
         (parses(v) /\ Stripped(v) = Stripped(rootUrl) /\ TrailingSlashes(v) <= 1) =>
           /\ Derived(v).urlGraphql = urls.urlGraphql
           /\ Derived(v).urlGraphqlSystem = urls.urlGraphqlSystem

C13_Witness ==
  /\ upc = "derived"
  /\ rootUrl = <<"https://cms", "/", "a", "/">>
  /\ urls.urlGraphql = <<"https://cms", "/", "a", "/", "graphql">>
  /\ Derived(<<"https://cms", "/", "a">>).urlGraphql = urls.urlGraphql

\* C20 as stated: the download URL of a file is the root without its trailing
\* slash, followed by /assets/ and the file's id, whether the root URL has a
\* base path or not and whether it ends with a slash or not.
C20_AssetUrl ==
  (upc = "asset" /\ TrailingSlashes(rootUrl) <= 1) =>
    fileUrl = <<rootUrl[1]>> \o basePath(pathname(rootUrl)) \o <<"/", "assets", "/", fileId>>

====
